---- MODULE Spec2Model ----
(***************************************************************************)
(* A model of the BMP decoder of src/src/bmp.rs: Bitmap::read and its four *)
(* stages (read_header, read_dib, read_color_table, read_pixels) over one  *)
(* forward-only byte source, with read_section as the shared primitive.    *)
(*                                                                         *)
(* Integers: every u32 field of the inputs stays below 2^31 and every      *)
(* palette byte below 128, so that the 32-bit words the code assembles     *)
(* (and byte-swaps) stay inside the integers the model checker computes    *)
(* with. usize is taken as 64 bits wide: with u32 operands neither         *)
(* 4*cols + 31 nor rows*rbytes can wrap there.                             *)
(*                                                                         *)
(* Sources: Bitmap::read wraps its input in a BufReader and every stage    *)
(* reads through it with one read call. Spec is the decoder over an        *)
(* in-memory input small enough that each read is served in full (the      *)
(* Cursor of the tests). SpecStream adds sources whose read may return     *)
(* fewer bytes than asked while more are to come, which the contract of    *)
(* io::Read allows. A source never reports an I/O error here, so           *)
(* LoadError::Io does not arise.                                           *)
(***************************************************************************)
EXTENDS Integers, Sequences, FiniteSets, TLC

\* Bounds of the input family.
MaxWidth == 9
MaxHeight == 2
MaxColors == 2
MaxSeed == 1

VARIABLES
    gen,      \* the file the input was cut from: its declared fields
    input,    \* the bytes the source holds (a prefix of the file)
    source,   \* "cursor": every read is served in full; "stream": a read may come back short
    pos,      \* stream position: bytes consumed so far
    pc,       \* position of Bitmap::read: the stage to run next, or "done"
    result,   \* "none" while running, then "Ok" or the LoadError kind
    hd,       \* local hd of Bitmap::read
    dib,      \* local dib of Bitmap::read
    ct,       \* local ct of Bitmap::read
    bitmap,   \* the Bitmap returned, or None
    buff,     \* the buffer of the latest read_section call
    reads     \* the read_section calls so far: stage, at, ebytes, nbytes, remaining, err

vars == <<gen, input, source, pos, pc, result, hd, dib, ct, bitmap, buff, reads>>

\* Option<T>: None, or Some(x).
None == <<>>

Some(x) == <<x>>

Min(a, b) == IF a <= b THEN a ELSE b

(***************************************************************************)
(* Byte order.                                                             *)
(***************************************************************************)

\* The target the model is built for is little-endian (x86): Int::from_le is
\* the identity there and Int::to_be swaps the bytes.
HostLittleEndian == TRUE

\* Byte i (0 = least significant) of x.
byte_of(x, i) == (x \div (256 ^ i)) % 256

\* x with its n bytes in reverse order.
swap_bytes(x, n) ==
    LET RECURSIVE acc(_)
        acc(i) == IF i = n THEN 0
                  ELSE byte_of(x, i) * (256 ^ (n - 1 - i)) + acc(i + 1)
    IN acc(0)

from_le(x, n) == IF HostLittleEndian THEN x ELSE swap_bytes(x, n)

to_be(x, n) == IF HostLittleEndian THEN swap_bytes(x, n) ELSE x

\* word!(b, i): the bytes do not overlap, so | is +. i is the 0-based index.
word(b, i) == from_le(b[i + 1] + b[i + 2] * 256, 2)

\* dword!(b, i)
dword(b, i) ==
    from_le(b[i + 1] + b[i + 2] * 256 + b[i + 3] * 65536 + b[i + 4] * 16777216, 4)

\* Mutant of from_u32: the components are taken without the byte swap.
from_u32_unswapped(n) ==
    << (n \div 16777216) % 256, (n \div 65536) % 256, (n \div 256) % 256, n % 256 >>

\* Rgbx::from_u32: the four bytes of n.to_be(), most significant first.
from_u32(n) ==
    << (to_be(n, 4) \div 16777216) % 256,
       (to_be(n, 4) \div 65536) % 256,
       (to_be(n, 4) \div 256) % 256,
       to_be(n, 4) % 256 >>

(***************************************************************************)
(* The input family: BMP files as the tests write them, and their          *)
(* truncations.                                                            *)
(***************************************************************************)

\* v as n bytes, least significant first.
le_bytes(v, n) == [i \in 1..n |-> byte_of(v, i - 1)]

\* Row size of the BMP format for any bit depth: rows are padded to 32 bits.
file_stride(bpp, width) == ((bpp * width + 31) \div 32) * 4

\* The pixel rows of the tests, repeated (seed 0), or bytes whose padding is
\* not zero (seed 1).
FixturePixels == <<19, 32, 0, 0, 48, 48, 0, 0, 35, 16, 0, 0>>

pixel_byte(seed, k) ==
    IF seed = 0 THEN FixturePixels[(k % 12) + 1] ELSE (k * 29 + 167 + seed) % 256

\* Palette bytes, all different from their neighbours.
palette_byte(seed, k) == (k * 37 + seed * 101 + 5) % 128

header_bytes(g) ==
    g.magic
    \o le_bytes(54 + 4 * g.colors + file_stride(g.bpp, g.width) * g.height, 4)
    \o le_bytes(0, 4)
    \o le_bytes(54 + 4 * g.colors, 4)

dib_bytes(g) ==
    le_bytes(g.dib_size, 4) \o le_bytes(g.width, 4) \o le_bytes(g.height, 4)
    \o le_bytes(1, 2) \o le_bytes(g.bpp, 2) \o le_bytes(0, 4)
    \o le_bytes(file_stride(g.bpp, g.width) * g.height, 4)
    \o le_bytes(2835, 4) \o le_bytes(2835, 4)
    \o le_bytes(g.colors, 4) \o le_bytes(g.colors, 4)

palette_bytes(g) == [k \in 1..(4 * g.colors) |-> palette_byte(g.seed, k - 1)]

pixel_bytes(g) ==
    [k \in 1..(file_stride(g.bpp, g.width) * g.height) |-> pixel_byte(g.seed, k - 1)]

file_bytes(g) == header_bytes(g) \o dib_bytes(g) \o palette_bytes(g) \o pixel_bytes(g)

Magics == {<<66, 77>>, <<204, 221>>, <<66, 78>>}
DibSizes == {40, 12, 296}
Bpps == {4, 8}

Files ==
    [magic : Magics, dib_size : DibSizes, width : 0..MaxWidth, height : 0..MaxHeight,
     bpp : Bpps, colors : 0..MaxColors, seed : 0..MaxSeed]

(***************************************************************************)
(* read_section and the stages.                                            *)
(***************************************************************************)

\* What one call input.read(&mut buff) with a buffer of ebytes bytes may
\* return: a cursor serves min(ebytes, remaining); a stream serves at least one
\* byte while bytes remain, and 0 only at the end (or for an empty buffer).
read_counts(ebytes) ==
    LET avail == Min(ebytes, Len(input) - pos)
    IN IF source = "cursor" \/ avail = 0 THEN {avail} ELSE 1..avail

\* Mutant of eof: only an empty read counts as the end of the input.
eof_only_empty(ebytes, nbytes) == nbytes = 0 /\ ebytes # 0

\* Mutant of eof: a short read is never noticed.
eof_never(ebytes, nbytes) == nbytes > ebytes

\* if nbytes != ebytes { Err(LoadError::UnexpectedEof) }
eof(ebytes, nbytes) == nbytes # ebytes

\* The outcome of read_section when the read returned nbytes: the buffer is
\* vec![0u8; ebytes] with the bytes read at its front.
section(ebytes, nbytes) ==
    [ebytes |-> ebytes, nbytes |-> nbytes,
     buff |-> [i \in 1..ebytes |-> IF i <= nbytes THEN input[pos + i] ELSE 0],
     err |-> IF eof(ebytes, nbytes) THEN "UnexpectedEof" ELSE "Ok"]

read_section(ebytes) == {section(ebytes, k) : k \in read_counts(ebytes)}

\* Mutant of magic_ok: only the first byte is compared.
magic_ok_first_byte(b) == b[1] = 66

\* First two bytes must be `BM` in ASCII
magic_ok(b) == ~(b[1] # 66 \/ b[2] # 77)

\* Mutant of read_header: the magic is not checked.
read_header_unchecked(s) ==
    IF s.err # "Ok" THEN [err |-> s.err, val |-> None]
    ELSE [err |-> "Ok",
          val |-> Some([size |-> dword(s.buff, 2), reserved |-> dword(s.buff, 6),
                        offset |-> dword(s.buff, 10)])]

read_header(s) ==
    IF s.err # "Ok" THEN [err |-> s.err, val |-> None]
    ELSE IF ~magic_ok(s.buff) THEN [err |-> "BadMagic", val |-> None]
    ELSE [err |-> "Ok",
          val |-> Some([size |-> dword(s.buff, 2), reserved |-> dword(s.buff, 6),
                        offset |-> dword(s.buff, 10)])]

\* Mutant of dib_size_ok: only the low byte of the size is compared.
dib_size_ok_low_byte(b) == b[1] = 40

\* The indicated DIB length must be 40
dib_size_ok(b) == ~(dword(b, 0) # 40)

read_dib(s) ==
    IF s.err # "Ok" THEN [err |-> s.err, val |-> None]
    ELSE IF ~dib_size_ok(s.buff) THEN [err |-> "UnsupportedDib", val |-> None]
    ELSE [err |-> "Ok",
          val |-> Some([width |-> dword(s.buff, 4), height |-> dword(s.buff, 8),
                        planes |-> word(s.buff, 12), bpp |-> word(s.buff, 14),
                        comp |-> dword(s.buff, 16), size |-> dword(s.buff, 20),
                        ppm_x |-> dword(s.buff, 24), ppm_y |-> dword(s.buff, 28),
                        colors |-> dword(s.buff, 32),
                        imp_colors |-> dword(s.buff, 36)])]

\* Bytes read_color_table asks for.
color_table_bytes(ncolors) == 4 * ncolors

read_color_table(s, ncolors) ==
    IF s.err # "Ok" THEN [err |-> s.err, val |-> None]
    ELSE [err |-> "Ok",
          val |-> Some([i \in 1..ncolors |-> from_u32(dword(s.buff, 4 * (i - 1)))])]

\* Mutant of row_bytes: rows are rounded up to whole bytes, not to 32 bits.
row_bytes_unpadded(cols) == (4 * cols + 7) \div 8

\* rbytes of read_pixels_4bpp
row_bytes(cols) == ((4 * cols + 31) \div 32) * 4

\* ebytes of read_pixels_4bpp
pixel_store_bytes(cols, rows) == rows * row_bytes(cols)

\* The index read_pixels_4bpp takes its byte from (0-based).
pixel_index(r, c, rbytes) == r * rbytes + c \div 2

\* Mutant of nibble: the two samples of a byte are taken in the other order.
nibble_swapped(b, c) == IF c % 2 = 0 THEN b % 16 ELSE b \div 16

\* The sample of byte b that column c takes.
nibble(b, c) == IF c % 2 = 0 THEN b \div 16 ELSE b % 16

\* The pixels pushed by the two loops, in push order; buff[i] out of bounds
\* panics.
read_pixels_4bpp(s, cols, rows) ==
    LET rbytes == row_bytes(cols)
        at(k) == pixel_index((k - 1) \div cols, (k - 1) % cols, rbytes)
    IN IF s.err # "Ok" THEN [err |-> s.err, val |-> None]
       ELSE IF \E k \in 1..(rows * cols) : at(k) >= s.ebytes
            THEN [err |-> "Panic", val |-> None]
       ELSE [err |-> "Ok",
             val |-> Some([k \in 1..(rows * cols) |->
                              nibble(s.buff[at(k) + 1], (k - 1) % cols)])]

\* Mutant of bpp_supported: deeper formats are let through to the 4-bpp reader.
bpp_supported_from_4(bpp) == bpp >= 4

\* The match of read_pixels.
bpp_supported(bpp) == bpp = 4

(***************************************************************************)
(* Bitmap::read                                                            *)
(***************************************************************************)

call(stage, s) ==
    [stage |-> stage, at |-> pos, ebytes |-> s.ebytes, nbytes |-> s.nbytes,
     remaining |-> Len(input) - pos, err |-> s.err]

InitRead ==
    /\ gen \in Files
    /\ input \in {SubSeq(file_bytes(gen), 1, n) : n \in 0..Len(file_bytes(gen))}
    /\ pos = 0
    /\ pc = "header"
    /\ result = "none"
    /\ hd = None
    /\ dib = None
    /\ ct = None
    /\ bitmap = None
    /\ buff = <<>>
    /\ reads = <<>>

\* An in-memory input, as in the tests: Cursor::new(buff).
Init == InitRead /\ source = "cursor"

\* Any source that keeps the contract of io::Read.
InitStream == InitRead /\ source \in {"cursor", "stream"}

\* let hd = try!(Bitmap::read_header(&mut binput));
ReadHeader ==
    /\ pc = "header"
    /\ \E s \in read_section(14) :
         LET r == read_header(s)
         IN /\ reads' = Append(reads, call("header", s))
            /\ buff' = s.buff
            /\ pos' = pos + s.nbytes
            /\ hd' = r.val
            /\ result' = IF r.err = "Ok" THEN result ELSE r.err
            /\ pc' = IF r.err = "Ok" THEN "dib" ELSE "done"
    /\ UNCHANGED <<gen, input, source, dib, ct, bitmap>>

\* let dib = try!(Bitmap::read_dib(&mut binput));
ReadDib ==
    /\ pc = "dib"
    /\ \E s \in read_section(40) :
         LET r == read_dib(s)
         IN /\ reads' = Append(reads, call("dib", s))
            /\ buff' = s.buff
            /\ pos' = pos + s.nbytes
            /\ dib' = r.val
            /\ result' = IF r.err = "Ok" THEN result ELSE r.err
            /\ pc' = IF r.err = "Ok" THEN "color_table" ELSE "done"
    /\ UNCHANGED <<gen, input, source, hd, ct, bitmap>>

\* let ct = try!(Bitmap::read_color_table(&mut binput, dib.colors as usize));
ReadColorTable ==
    /\ pc = "color_table"
    /\ \E s \in read_section(color_table_bytes(dib[1].colors)) :
         LET r == read_color_table(s, dib[1].colors)
         IN /\ reads' = Append(reads, call("color_table", s))
            /\ buff' = s.buff
            /\ pos' = pos + s.nbytes
            /\ ct' = r.val
            /\ result' = IF r.err = "Ok" THEN result ELSE r.err
            /\ pc' = IF r.err = "Ok" THEN "pixels" ELSE "done"
    /\ UNCHANGED <<gen, input, source, hd, dib, bitmap>>

\* read_pixels with bpp 4, and the Ok(Bitmap { .. }) that ends Bitmap::read.
ReadPixels ==
    /\ pc = "pixels"
    /\ bpp_supported(dib[1].bpp)
    /\ \E s \in read_section(pixel_store_bytes(dib[1].width, dib[1].height)) :
         LET r == read_pixels_4bpp(s, dib[1].width, dib[1].height)
         IN /\ reads' = Append(reads, call("pixels", s))
            /\ buff' = s.buff
            /\ pos' = pos + s.nbytes
            /\ result' = r.err
            /\ bitmap' = IF r.err = "Ok"
                         THEN Some([header |-> hd[1], dib |-> dib[1], colors |-> ct[1],
                                    pixels |-> r.val[1]])
                         ELSE None
    /\ pc' = "done"
    /\ UNCHANGED <<gen, input, source, hd, dib, ct>>

\* read_pixels with any other bpp: the match fails before any byte is read.
RejectBpp ==
    /\ pc = "pixels"
    /\ ~bpp_supported(dib[1].bpp)
    /\ result' = "UnsupportedBpp"
    /\ pc' = "done"
    /\ UNCHANGED <<gen, input, source, pos, hd, dib, ct, bitmap, buff, reads>>

Next == ReadHeader \/ ReadDib \/ ReadColorTable \/ ReadPixels \/ RejectBpp

Spec == Init /\ [][Next]_vars

SpecStream == InitStream /\ [][Next]_vars

(***************************************************************************)
(* What the claims speak of, stated from the file the input was cut from   *)
(* (gen), not from what the decoder made of the bytes.                     *)
(***************************************************************************)

Done == pc = "done"

L == Len(input)

GoodMagic == gen.magic = <<66, 77>>

GoodDib == gen.dib_size = 40

\* The first two bytes are there and are not 'B','M'.
BadFirstTwo == L >= 2 /\ (input[1] # 66 \/ input[2] # 77)

\* The smallest multiple of 4 that is at least ceil(w/2).
PaddedRow(w) ==
    CHOOSE m \in 0..(w + 4) :
        /\ m % 4 = 0
        /\ 2 * m >= w
        /\ \A k \in 0..(m - 1) : ~(k % 4 = 0 /\ 2 * k >= w)

\* Where the palette and the 4-bpp pixel data end in the whole file.
PaletteEnd == 54 + 4 * gen.colors

PixelEnd == PaletteEnd + PaddedRow(gen.width) * gen.height

\* Valid magic, DIB size 40, 4 bits per pixel.
WellFormed4bpp == GoodMagic /\ GoodDib /\ gen.bpp = 4

\* The i-th read_section call got all the bytes it asked for.
Full(i) == reads[i].nbytes = reads[i].ebytes

\* Every read so far returned all it could: min(requested, remaining).
ServedInFull ==
    \A i \in 1..Len(reads) : reads[i].nbytes = Min(reads[i].ebytes, reads[i].remaining)

(***************************************************************************)
(* C1                                                                      *)
(***************************************************************************)

\* C1 as stated: an input whose first two bytes are not 0x42,0x4D gives
\* BadMagic whatever its length, an input of only those two bytes included.
C1_BadMagicWhateverLength == (Done /\ BadFirstTwo) => result = "BadMagic"

\* C1 as amended: with first two bytes that are not 0x42,0x4D, the header stage
\* is the only one to run; the result is BadMagic when the 14-byte header
\* section was read in full (so for every in-memory input of at least 14
\* bytes, whatever follows the magic), with exactly 14 bytes consumed, and
\* UnexpectedEof when the input holds fewer than 14 bytes.
C1_BadMagicAfterFullHeader ==
    (Done /\ BadFirstTwo) =>
        /\ Len(reads) = 1
        /\ Full(1) => (result = "BadMagic" /\ pos = 14)
        /\ (source = "cursor" /\ L >= 14) => result = "BadMagic"
        /\ L < 14 => result = "UnexpectedEof"

\* A bad magic in front of a DIB of another size and further bytes: BadMagic.
C1_Witness ==
    /\ Done /\ BadFirstTwo /\ L > 54 /\ ~GoodDib
    /\ result = "BadMagic"

(***************************************************************************)
(* C2                                                                      *)
(***************************************************************************)

\* The input ends inside a stage of a well-formed 4-bpp file: before the end
\* of the header, or strictly between the start and the end of the DIB, the
\* palette or the pixel data.
EndsInsideStage ==
    \/ L < 14
    \/ 14 < L /\ L < 54
    \/ 54 < L /\ L < PaletteEnd
    \/ PaletteEnd < L /\ L < PixelEnd

\* C2: a well-formed 4-bpp input cut inside a stage's bytes decodes to
\* UnexpectedEof: no Bitmap and no other error.
C2_TruncatedIsUnexpectedEof ==
    (Done /\ WellFormed4bpp /\ EndsInsideStage) =>
        (result = "UnexpectedEof" /\ bitmap = None)

\* Cut inside the second row of the pixel data, after three full stages.
C2_Witness ==
    /\ Done /\ WellFormed4bpp
    /\ gen.height = 2 /\ gen.colors > 0
    /\ L = PaletteEnd + PaddedRow(gen.width) + 1
    /\ Len(reads) = 4
    /\ result = "UnexpectedEof"

(***************************************************************************)
(* C3                                                                      *)
(***************************************************************************)

\* The input is a well-formed file cut exactly where one stage ends and the
\* next begins.
EndsAtBoundary == GoodMagic /\ GoodDib /\ L \in {14, 54, PaletteEnd}

\* A stage that still has to run asks for at least one byte past the cut.
MoreNeeded ==
    \/ L = 14
    \/ L = 54 /\ gen.colors > 0
    \/ L = PaletteEnd /\ gen.bpp = 4 /\ PaddedRow(gen.width) * gen.height > 0

\* C3 as stated: cut exactly at a boundary between two stages, the result is
\* not UnexpectedEof.
C3_BoundaryNeverUnexpectedEof ==
    (Done /\ EndsAtBoundary) => result # "UnexpectedEof"

\* C3 as amended: cut exactly at a boundary between two stages, the result is
\* UnexpectedEof whenever a stage that still has to run needs at least one
\* byte (always after byte 14, after byte 54 when palette_colors > 0, after
\* the palette when bits_per_pixel = 4 and stride*height > 0); when no
\* remaining stage needs a byte and every read was served in full, the result
\* is not UnexpectedEof.
C3_BoundaryUnexpectedEofWhenMoreNeeded ==
    (Done /\ EndsAtBoundary) =>
        /\ MoreNeeded => result = "UnexpectedEof"
        /\ (~MoreNeeded /\ ServedInFull) => result # "UnexpectedEof"

\* Cut right after the DIB of a file that declares a palette: the header and
\* the DIB were read, the color table had nothing to read.
C3_Witness ==
    /\ Done /\ EndsAtBoundary /\ L = 54 /\ gen.colors > 0
    /\ Len(reads) = 3 /\ reads[3].nbytes = 0
    /\ result = "UnexpectedEof"

(***************************************************************************)
(* C4                                                                      *)
(***************************************************************************)

\* C4 as stated: every read_section call that found at least ebytes bytes
\* remaining returned Ok with exactly the next ebytes bytes of the source, and
\* every call that failed with UnexpectedEof found fewer than ebytes remaining;
\* for any source that keeps the Read contract, short reads included.
C4_ReadSectionExact ==
    /\ \A i \in 1..Len(reads) :
         /\ reads[i].remaining >= reads[i].ebytes =>
               (reads[i].err = "Ok" /\ reads[i].nbytes = reads[i].ebytes)
         /\ reads[i].err = "UnexpectedEof" => reads[i].remaining < reads[i].ebytes
    /\ (Len(reads) > 0 /\ reads[Len(reads)].err = "Ok") =>
         LET c == reads[Len(reads)]
         IN buff = SubSeq(input, c.at + 1, c.at + c.ebytes)

(***************************************************************************)
(* C5                                                                      *)
(***************************************************************************)

\* C5: valid magic and a complete 40-byte DIB block that declares a size other
\* than 40 give UnsupportedDib whatever the other fields and the following
\* bytes are; exactly the 54 bytes of the header and the DIB were consumed, no
\* DIB field was made a Dib, and neither the color table nor the pixel stage
\* ran.
C5_DibSizeGate ==
    (Done /\ GoodMagic /\ ~GoodDib /\ L >= 54) =>
        /\ result = "UnsupportedDib"
        /\ pos = 54
        /\ Len(reads) = 2
        /\ dib = None /\ ct = None /\ bitmap = None

\* A DIB of size 296 (low byte 40) with 8 bpp, a palette and pixel data after
\* it.
C5_Witness ==
    /\ Done /\ GoodMagic /\ gen.dib_size = 296 /\ gen.bpp = 8 /\ gen.colors > 0
    /\ L > PaletteEnd
    /\ result = "UnsupportedDib" /\ pos = 54

(***************************************************************************)
(* C6                                                                      *)
(***************************************************************************)

\* C6: UnsupportedBpp is only ever the result after the header, the DIB and
\* the 4*palette_colors palette bytes were read in full and nothing else; a
\* file that declares another depth than 4 gives UnsupportedBpp when its
\* palette is complete, with the position at the end of the palette (no pixel
\* byte consumed), and UnexpectedEof when its palette is cut.
C6_BppGateAfterPalette ==
    /\ result = "UnsupportedBpp" =>
         /\ Len(reads) = 3
         /\ \A i \in 1..3 : Full(i)
         /\ reads[3].ebytes = 4 * gen.colors
         /\ pos = PaletteEnd
    /\ (Done /\ GoodMagic /\ GoodDib /\ gen.bpp # 4 /\ L >= 54) =>
         /\ L >= PaletteEnd => (result = "UnsupportedBpp" /\ pos = PaletteEnd)
         /\ L < PaletteEnd => result = "UnexpectedEof"

\* An 8-bpp file with a two-color palette and pixel data: rejected at the end
\* of the palette.
C6_Witness ==
    /\ Done /\ GoodMagic /\ GoodDib /\ gen.bpp = 8 /\ gen.colors = 2
    /\ L > PaletteEnd
    /\ result = "UnsupportedBpp" /\ pos = 62 /\ Len(reads) = 3

(***************************************************************************)
(* C7                                                                      *)
(***************************************************************************)

StageOrder == <<"header", "dib", "color_table", "pixels">>

\* The error of the earliest stage that fails on this input, or Ok.
EarliestFailure ==
    IF L < 14 THEN "UnexpectedEof"
    ELSE IF ~GoodMagic THEN "BadMagic"
    ELSE IF L < 54 THEN "UnexpectedEof"
    ELSE IF ~GoodDib THEN "UnsupportedDib"
    ELSE IF L < PaletteEnd THEN "UnexpectedEof"
    ELSE IF gen.bpp # 4 THEN "UnsupportedBpp"
    ELSE IF L < PixelEnd THEN "UnexpectedEof"
    ELSE "Ok"

\* The number of read_section calls up to and including that stage's.
CallsUntilFailure ==
    IF L < 14 \/ ~GoodMagic THEN 1
    ELSE IF L < 54 \/ ~GoodDib THEN 2
    ELSE IF L < PaletteEnd \/ gen.bpp # 4 THEN 3
    ELSE 4

\* C7: the stages run in the order header, DIB, color table, pixels, each
\* reading where the one before stopped; the result is the error of the
\* earliest stage that fails; once a stage has failed no later stage has read;
\* a Bitmap is returned only with all four stages successful, and is made of
\* their results.
C7_StagesInOrder ==
    /\ Len(reads) <= 4
    /\ \A i \in 1..Len(reads) :
         /\ reads[i].stage = StageOrder[i]
         /\ reads[i].at = (IF i = 1 THEN 0 ELSE reads[i - 1].at + reads[i - 1].nbytes)
         /\ i < Len(reads) => reads[i].err = "Ok"
    /\ Len(reads) > 0 => pos = reads[Len(reads)].at + reads[Len(reads)].nbytes
    /\ (result = "none") = ~Done
    /\ Done =>
         /\ result = EarliestFailure
         /\ Len(reads) = CallsUntilFailure
    /\ (bitmap # None) = (result = "Ok")
    /\ result = "Ok" =>
         /\ Len(reads) = 4
         /\ \A i \in 1..4 : reads[i].err = "Ok"
         /\ hd # None /\ dib # None /\ ct # None
         /\ bitmap[1].header = hd[1]
         /\ bitmap[1].dib = dib[1]
         /\ bitmap[1].colors = ct[1]

\* The spec's example: a bad magic in front of a DIB size other than 40, all
\* 54 bytes present: BadMagic, and the DIB stage never ran.
C7_Witness ==
    /\ Done /\ ~GoodMagic /\ ~GoodDib /\ L >= 54
    /\ result = "BadMagic" /\ Len(reads) = 1 /\ pos = 14

(***************************************************************************)
(* C8                                                                      *)
(***************************************************************************)

\* C8: for every width the decoder read, the row stride of read_pixels_4bpp is
\* the smallest multiple of 4 that is at least ceil(width/2) (4 for widths 3
\* and 8, 8 for width 9, 0 for width 0), and the pixel stage asks read_section
\* for exactly stride*height bytes.
C8_RowStride ==
    (dib # None) =>
        /\ dib[1].width = gen.width
        /\ row_bytes(dib[1].width) = PaddedRow(gen.width)
        /\ gen.width = 0 => row_bytes(dib[1].width) = 0
        /\ gen.width \in {3, 8} => row_bytes(dib[1].width) = 4
        /\ gen.width = 9 => row_bytes(dib[1].width) = 8
        /\ Len(reads) = 4 =>
              reads[4].ebytes = PaddedRow(gen.width) * gen.height

\* The pixel stage of a file 9 pixels wide and 2 rows high asked for 16 bytes.
C8_Witness ==
    /\ Len(reads) = 4 /\ gen.width = 9 /\ gen.height = 2
    /\ reads[4].ebytes = 16

(***************************************************************************)
(* C9                                                                      *)
(***************************************************************************)

\* Byte k (from 0) of the pixel data of the input.
PixelData(k) == input[PaletteEnd + k + 1]

\* C9: on a successful decode there are width*height pixels, and the pixel of
\* row r and column c is the high (c even) or low (c odd) half of pixel-data
\* byte r*stride + c/2, which lies inside the stride*height bytes read; rows
\* keep their stored order and padding bytes play no part; the row 0x13, 0x20,
\* 0, 0 of a file 3 pixels wide gives 1, 3, 2. No decode ever indexes outside
\* the bytes it read.
C9_NibbleUnpacking ==
    /\ result # "Panic"
    /\ result = "Ok" =>
         LET px == bitmap[1].pixels
             w == gen.width
             h == gen.height
             st == PaddedRow(w)
         IN /\ Len(px) = w * h
            /\ \A r \in 0..(h - 1) : \A c \in 0..(w - 1) :
                 LET k == r * st + c \div 2
                 IN /\ k < st * h
                    /\ k < reads[4].nbytes
                    /\ px[r * w + c + 1] =
                          (IF c % 2 = 0 THEN PixelData(k) \div 16 ELSE PixelData(k) % 16)
            /\ (w = 3 /\ h >= 1 /\ <<PixelData(0), PixelData(1)>> = <<19, 32>>) =>
                 SubSeq(px, 1, 3) = <<1, 3, 2>>

\* The first two rows of the tests' image decoded.
C9_Witness ==
    /\ result = "Ok" /\ gen.width = 3 /\ gen.height = 2 /\ gen.seed = 0
    /\ bitmap[1].pixels = <<1, 3, 2, 3, 0, 3>>

(***************************************************************************)
(* C10                                                                     *)
(***************************************************************************)

\* C10: the color table stage asks for exactly 4*palette_colors bytes at byte
\* 54; when it succeeds it has consumed exactly those, so that the pixel stage
\* starts at byte 54 + 4*palette_colors, and its palette has palette_colors
\* entries, entry i made of the stream bytes 4i..4i+3 of the palette area in
\* that order; with palette_colors = 0 the palette is empty, no byte is
\* consumed and the pixel stage starts at byte 54.
C10_ColorTable ==
    /\ Len(reads) >= 3 => (reads[3].at = 54 /\ reads[3].ebytes = 4 * gen.colors)
    /\ (ct # None) = (pc = "pixels" \/ (Done /\ Len(reads) >= 3 /\ reads[3].err = "Ok"))
    /\ pc = "pixels" => pos = 54 + 4 * gen.colors
    /\ ct # None =>
         /\ reads[3].nbytes = 4 * gen.colors
         /\ Len(ct[1]) = gen.colors
         /\ \A i \in 1..gen.colors :
              ct[1][i] = << input[54 + 4 * (i - 1) + 1], input[54 + 4 * (i - 1) + 2],
                            input[54 + 4 * (i - 1) + 3], input[54 + 4 * (i - 1) + 4] >>
         /\ gen.colors = 0 => (ct[1] = <<>> /\ pos >= 54 /\ reads[3].nbytes = 0)
         /\ Len(reads) = 4 => reads[4].at = 54 + 4 * gen.colors

\* A two-color palette decoded, before the pixel stage runs.
C10_Witness ==
    /\ pc = "pixels" /\ gen.colors = 2 /\ gen.seed = 1 /\ pos = 62
    /\ ct[1] = << <<106, 15, 52, 89>>, <<126, 35, 72, 109>> >>

====
